---------------------------- MODULE Spec2Model ----------------------------
(***************************************************************************)
(* A model of pgp-rs: the packet iterator (src/src/lib.rs), the public-key *)
(* packet parser (src/src/publickey.rs), the bignum reader                 *)
(* (src/src/util.rs) and the ASCII-armor reader (src/src/armor.rs).        *)
(*                                                                         *)
(* Bytes are integers 0..255.  usize is taken to be 64 bits wide: with a   *)
(* length field of at most 4 bytes neither `len << 8` nor `cursor + len`   *)
(* overflows, and the buffers below keep every declared length below 2^31. *)
(* A Rust panic (slice index out of bounds) is modelled as pc = "panic":   *)
(* the call does not return and nothing more happens on that iterator.     *)
(***************************************************************************)
EXTENDS Integers, Sequences, FiniteSets, TLC

VARIABLES
    mode,       \* which operation of the crate this behaviour exercises
    data,       \* PacketIterator.data: the byte buffer
    cursor,     \* PacketIterator.cursor
    errored,    \* PacketIterator.errored
    pc,         \* "run" or "panic" (an out-of-bounds index aborted next())
    rets,       \* what the calls to next() made so far returned, in order
    stream,     \* read_stream: the Vec collected so far
    done,       \* read_stream: collect() has seen None and returned
    last,       \* locals of the latest call to next()
    line,       \* the argument of ArmorType::from_header / from_footer
    typeRes,    \* what from_header / from_footer returned
    armored,    \* the argument of Armor::read, as its lines()
    origin,     \* how the armored text was put together
    armorRes    \* what Armor::read returned

vars == <<mode, data, cursor, errored, pc, rets, stream, done, last,
          line, typeRes, armored, origin, armorRes>>

packetVars == <<data, cursor, errored, pc, rets, stream, done, last>>

armorVars == <<line, typeRes, armored, origin, armorRes>>

(***************************************************************************)
(* Bounds of the model.                                                    *)
(***************************************************************************)
\* the number of packet-sized chunks a buffer is built from (before its tail)
MaxPackets == 2

\* calls to next(): one per chunk, one for the tail, and two more
MaxCalls == MaxPackets + 3

(***************************************************************************)
(* Values: Option<Result<Packet>> and Result<PublicKey>, as records with   *)
(* one shape.                                                              *)
(***************************************************************************)
Elem(kind, what, tag, n, e, timestamp) ==
    [kind |-> kind, what |-> what, tag |-> tag, n |-> n, e |-> e,
     timestamp |-> timestamp]

None == Elem("None", "", 0, <<>>, <<>>, 0)

ErrPacket == Elem("Packet", "", 0, <<>>, <<>>, 0)

ErrUnsupported(what) == Elem("Unsupported", what, 0, <<>>, <<>>, 0)

ErrUnknownPacket(tag) == Elem("UnknownPacket", "", tag, <<>>, <<>>, 0)

\* chain_err(|| msg): an io error wrapped with a message
ErrMsg(what) == Elem("Msg", what, 0, <<>>, <<>>, 0)

\* Ok(PublicKey::Rsa(RsaPublicKey {n, e, timestamp})), and the same value
\* wrapped as Ok(Packet::PublicKey(..)) by the iterator
OkRsa(n, e, timestamp) == Elem("Rsa", "", 0, n, e, timestamp)

\* the locals of next() before any call
NoCall == [called |-> FALSE, framed |-> FALSE, len_bytes |-> 0, len |-> 0,
           before |-> 0, wasErrored |-> FALSE]

(***************************************************************************)
(* io::Cursor over a byte slice, and the readers of byteorder / util.rs.   *)
(* A reader returns [ok, val, pos]: pos is the cursor's position after it. *)
(***************************************************************************)
read_u8(buf, pos) ==
    IF pos + 1 <= Len(buf)
      THEN [ok |-> TRUE, val |-> buf[pos + 1], pos |-> pos + 1]
      ELSE [ok |-> FALSE, val |-> 0, pos |-> pos]

read_u16_be(buf, pos) ==
    IF pos + 2 <= Len(buf)
      THEN [ok |-> TRUE, val |-> buf[pos + 1] * 256 + buf[pos + 2], pos |-> pos + 2]
      ELSE [ok |-> FALSE, val |-> 0, pos |-> pos]

read_u32_be(buf, pos) ==
    IF pos + 4 <= Len(buf)
      THEN [ok |-> TRUE,
            val |-> ((buf[pos + 1] * 256 + buf[pos + 2]) * 256 + buf[pos + 3]) * 256
                    + buf[pos + 4],
            pos |-> pos + 4]
      ELSE [ok |-> FALSE, val |-> 0, pos |-> pos]

\* util.rs read_bytes: vec![0; len] filled by read_exact
read_bytes(buf, pos, len) ==
    IF pos + len <= Len(buf)
      THEN [ok |-> TRUE, val |-> SubSeq(buf, pos + 1, pos + len), pos |-> pos + len]
      ELSE [ok |-> FALSE, val |-> <<>>, pos |-> pos]

\* util.rs read_bignum: [ok, val, pos, err]
read_bignum(buf, pos) ==
    LET bl == read_u16_be(buf, pos) IN
    IF ~bl.ok
      THEN [ok |-> FALSE, val |-> <<>>, pos |-> pos,
            err |-> "Could not read size for bignum"]
      ELSE LET len == (bl.val + 7) \div 8
               bs  == read_bytes(buf, bl.pos, len) IN
           IF bs.ok
             THEN [ok |-> TRUE, val |-> bs.val, pos |-> bs.pos, err |-> ""]
             ELSE [ok |-> FALSE, val |-> <<>>, pos |-> bl.pos,
                   err |-> "Could not read packet bytes"]

\* read_rsa with the two bignums stored the wrong way round
read_rsa_Swapped(buf, pos, timestamp) ==
    LET n == read_bignum(buf, pos) IN
    IF ~n.ok THEN ErrMsg(n.err)
    ELSE LET e == read_bignum(buf, n.pos) IN
         IF ~e.ok THEN ErrMsg(e.err)
         ELSE OkRsa(e.val, n.val, timestamp)

\* publickey.rs PublicKey::read_rsa
read_rsa(buf, pos, timestamp) ==
    LET n == read_bignum(buf, pos) IN
    IF ~n.ok THEN ErrMsg(n.err)
    ELSE LET e == read_bignum(buf, n.pos) IN
         IF ~e.ok THEN ErrMsg(e.err)
         ELSE OkRsa(n.val, e.val, timestamp)

\* publickey.rs PublicKey::read over a fresh cursor on buf
PublicKey_read(buf) ==
    LET ver == read_u8(buf, 0) IN
    IF ~ver.ok THEN ErrMsg("Could not read PublicKey version")
    ELSE IF ver.val # 4 THEN ErrUnsupported("PublicKey packet is not v4")
    ELSE LET ts == read_u32_be(buf, ver.pos) IN
         IF ~ts.ok THEN ErrMsg("Could not read PublicKey timestamp")
         ELSE LET alg == read_u8(buf, ts.pos) IN
              IF ~alg.ok THEN ErrMsg("Could not read PublicKey key type")
              ELSE IF alg.val = 1 THEN read_rsa(buf, alg.pos, ts.val)
              ELSE ErrUnsupported("Key format")

(***************************************************************************)
(* PacketIterator::next, lib.rs 49-106.                                    *)
(***************************************************************************)
\* the fields of a tag byte (lib.rs 58-61)
TagOf(tag_byte)     == (tag_byte \div 4) % 16
LenTypeOf(tag_byte) == tag_byte % 4
StyleOf(tag_byte)   == (tag_byte \div 64) % 2
CheckOf(tag_byte)   == (tag_byte \div 128) % 2

\* lib.rs 83: 1 << len_type
LenBytes(len_type) == CASE len_type = 0 -> 1 [] len_type = 1 -> 2 [] OTHER -> 4

\* lib.rs 84-89: the length loop started at position c (0-based) of buf.
\* [panic, len, cursor]: indexing buf at or past its end panics.
RECURSIVE ReadLen(_, _, _, _)
ReadLen(buf, c, k, len) ==
    IF k = 0 THEN [panic |-> FALSE, len |-> len, cursor |-> c]
    ELSE IF c >= Len(buf) THEN [panic |-> TRUE, len |-> len, cursor |-> c]
    ELSE ReadLen(buf, c + 1, k - 1, len * 256 + buf[c + 1])

\* lib.rs 91: the check that the payload fits
PayloadMissing(c, len, total) == c + len >= total

\* the slice of line 96 left open at its end: &self.data[self.cursor..]
PayloadSlice_ToEnd(buf, c, len) == SubSeq(buf, c + 1, Len(buf))

\* lib.rs 96: the slice handed to the packet parser
PayloadSlice(buf, c, len) == SubSeq(buf, c + 1, c + len)

\* lib.rs 99-105: dispatch on the tag
Dispatch(tag, payload) ==
    IF tag = 6 THEN PublicKey_read(payload) ELSE ErrUnknownPacket(tag)

\* the checks of the tag byte with the length type tested before the style
TagByteError_LenTypeFirst(tag_byte) ==
    IF CheckOf(tag_byte) = 0 THEN ErrPacket
    ELSE IF LenTypeOf(tag_byte) = 3 THEN ErrUnsupported("indeterminate-length packets")
    ELSE IF StyleOf(tag_byte) # 0 THEN ErrUnsupported("new-style packet length")
    ELSE None

\* lib.rs 63-76: the checks of the tag byte, in the code's order;
\* None when the tag byte is accepted
TagByteError(tag_byte) ==
    IF CheckOf(tag_byte) = 0 THEN ErrPacket
    ELSE IF StyleOf(tag_byte) # 0 THEN ErrUnsupported("new-style packet length")
    ELSE IF LenTypeOf(tag_byte) = 3 THEN ErrUnsupported("indeterminate-length packets")
    ELSE None

\* line 53 without the test of the errored latch
Exhausted_NoLatch(c, total, err) == c >= total

\* lib.rs 53: the sequence is over
Exhausted(c, total, err) == c >= total \/ err

\* The whole of next() as a function of the iterator's fields:
\* [ret, cursor, errored, panic, framed, len_bytes, len]; framed: the call
\* passed every framing check and reached the dispatch of line 99
NextCall(buf, c, err) ==
    LET rec(ret, c2, e2, p, f, lb, l) ==
            [ret |-> ret, cursor |-> c2, errored |-> e2, panic |-> p,
             framed |-> f, len_bytes |-> lb, len |-> l]
    IN
    IF Exhausted(c, Len(buf), err) THEN rec(None, c, err, FALSE, FALSE, 0, 0)
    ELSE LET tag_byte == buf[c + 1]
             tagErr   == TagByteError(tag_byte) IN
         IF tagErr # None THEN rec(tagErr, c, TRUE, FALSE, FALSE, 0, 0)
         ELSE LET lb == LenBytes(LenTypeOf(tag_byte))
                  rl == ReadLen(buf, c + 1, lb, 0) IN
              IF rl.panic THEN rec(None, rl.cursor, err, TRUE, FALSE, lb, rl.len)
              ELSE IF PayloadMissing(rl.cursor, rl.len, Len(buf))
                     THEN rec(ErrPacket, rl.cursor, TRUE, FALSE, FALSE, lb, rl.len)
              ELSE rec(Dispatch(TagOf(tag_byte), PayloadSlice(buf, rl.cursor, rl.len)),
                       rl.cursor + rl.len, err, FALSE, TRUE, lb, rl.len)

(***************************************************************************)
(* Text.  A &str is a sequence of one-character strings; lines() has       *)
(* already split the armored text.                                         *)
(***************************************************************************)
Upper == {"A", "B", "C", "D", "E", "F", "G", "H", "I", "J", "K", "L", "M", "N", "O", "P", "Q", "R", "S", "T", "U", "V", "W", "X", "Y", "Z"}

Lower == {"a", "b", "c", "d", "e", "f", "g", "h", "i", "j", "k", "l", "m", "n", "o", "p", "q", "r", "s", "t", "u", "v", "w", "x", "y", "z"}

Digits == {"0", "1", "2", "3", "4", "5", "6", "7", "8", "9"}

DigitValue(c) ==
    CASE c = "0" -> 0 [] c = "1" -> 1 [] c = "2" -> 2 [] c = "3" -> 3 [] c = "4" -> 4
      [] c = "5" -> 5 [] c = "6" -> 6 [] c = "7" -> 7 [] c = "8" -> 8 [] OTHER -> 9

AllIn(str, set) == \A i \in 1..Len(str) : str[i] \in set

\* str::parse::<usize> on a string of ASCII digits (short enough not to
\* overflow)
RECURSIVE ParseUsize(_)
ParseUsize(str) ==
    IF str = <<>> THEN 0
    ELSE ParseUsize(SubSeq(str, 1, Len(str) - 1)) * 10 + DigitValue(str[Len(str)])

Dashes == <<"-", "-", "-", "-", "-">>
BeginPGP == <<"B", "E", "G", "I", "N", " ", "P", "G", "P", " ">>
EndPGP == <<"E", "N", "D", " ", "P", "G", "P", " ">>
LabelPublicKey == <<"P", "U", "B", "L", "I", "C", " ", "K", "E", "Y", " ", "B", "L", "O", "C", "K">>
LabelPrivateKey == <<"P", "R", "I", "V", "A", "T", "E", " ", "K", "E", "Y", " ", "B", "L", "O", "C", "K">>
LabelSignature == <<"S", "I", "G", "N", "A", "T", "U", "R", "E">>
LabelMessage == <<"M", "E", "S", "S", "A", "G", "E">>

(***************************************************************************)
(* armor.rs 5-46: the header and footer regexes and ArmorType.             *)
(***************************************************************************)
\* Result<ArmorType> and Result<Armor>, as records with one shape.  An
\* ArmorType is [variant, part, total]; an Option<usize> is <<>> or <<v>>.
ArmorType(variant, part, total) == [variant |-> variant, part |-> part, total |-> total]

NoType == ArmorType("", <<>>, <<>>)

Res(ok, err, kind, bytes, headers) ==
    [called |-> TRUE, ok |-> ok, err |-> err, kind |-> kind, data |-> bytes,
     headers |-> headers]

NoResult == [called |-> FALSE, ok |-> FALSE, err |-> "", kind |-> NoType,
             data |-> <<>>, headers |-> <<>>]

NoTypeCall == [fn |-> "none", res |-> NoResult]

\* Err(ErrorKind::Armor.into())
ErrArmor == Res(FALSE, "Armor", NoType, <<>>, <<>>)

\* chain_err(|| "This doesn't look like base64 data")
ErrBase64 == Res(FALSE, "Msg", NoType, <<>>, <<>>)

OkType(t) == Res(TRUE, "", t, <<>>, <<>>)

\* the index of the first "/" of str, 0 when it has none
RECURSIVE FirstSlash(_, _)
FirstSlash(str, i) ==
    IF i > Len(str) THEN 0
    ELSE IF str[i] = "/" THEN i ELSE FirstSlash(str, i + 1)

\* (?: (\d+)(?:/(\d+))?)? matched against the whole of str:
\* [matched, g2, g3], a group that did not take part being <<>>
NumberPart(str) ==
    LET no == [matched |-> FALSE, g2 |-> <<>>, g3 |-> <<>>] IN
    IF str = <<>> THEN [matched |-> TRUE, g2 |-> <<>>, g3 |-> <<>>]
    ELSE IF str[1] # " " THEN no
    ELSE LET rest == SubSeq(str, 2, Len(str))
             sl   == FirstSlash(rest, 1) IN
         IF sl = 0
           THEN IF rest # <<>> /\ AllIn(rest, Digits)
                  THEN [matched |-> TRUE, g2 |-> rest, g3 |-> <<>>] ELSE no
           ELSE LET a == SubSeq(rest, 1, sl - 1)
                    b == SubSeq(rest, sl + 1, Len(rest)) IN
                IF a # <<>> /\ b # <<>> /\ AllIn(a, Digits) /\ AllIn(b, Digits)
                  THEN [matched |-> TRUE, g2 |-> a, g3 |-> b] ELSE no

\* ^-----<keyword>([A-Z ]+)(?: (\d+)(?:/(\d+))?)?-----$ on str: the first
\* group is greedy, so it is the longest run of [A-Z ] that lets the rest
\* match.  [matched, g1, g2, g3]
Captures(keyword, str) ==
    LET pre == Dashes \o keyword
        n   == Len(str)
        no  == [matched |-> FALSE, g1 |-> <<>>, g2 |-> <<>>, g3 |-> <<>>]
    IN
    IF n < Len(pre) + Len(Dashes) THEN no
    ELSE IF SubSeq(str, 1, Len(pre)) # pre THEN no
    ELSE IF SubSeq(str, n - Len(Dashes) + 1, n) # Dashes THEN no
    ELSE LET mid == SubSeq(str, Len(pre) + 1, n - Len(Dashes))
             ks  == { k \in 1..Len(mid) :
                        /\ AllIn(SubSeq(mid, 1, k), Upper \cup {" "})
                        /\ NumberPart(SubSeq(mid, k + 1, Len(mid))).matched }
         IN
         IF ks = {} THEN no
         ELSE LET k  == CHOOSE x \in ks : \A y \in ks : y <= x
                  np == NumberPart(SubSeq(mid, k + 1, Len(mid))) IN
              [matched |-> TRUE, g1 |-> SubSeq(mid, 1, k), g2 |-> np.g2, g3 |-> np.g3]

\* capt.at(i).map(|i| i.parse::<usize>().unwrap())
OptParse(group) == IF group = <<>> THEN <<>> ELSE << ParseUsize(group) >>

\* armor.rs 19-34
from_captures(capt) ==
    IF capt.g1 = LabelPublicKey THEN OkType(ArmorType("PublicKey", <<>>, <<>>))
    ELSE IF capt.g1 = LabelPrivateKey THEN OkType(ArmorType("PrivateKey", <<>>, <<>>))
    ELSE IF capt.g1 = LabelSignature THEN OkType(ArmorType("Signature", <<>>, <<>>))
    ELSE IF capt.g1 = LabelMessage
      THEN OkType(ArmorType("Message", OptParse(capt.g2), OptParse(capt.g3)))
    ELSE ErrArmor

\* armor.rs 35-39
ArmorType_from_header(str) ==
    LET capt == Captures(BeginPGP, str) IN
    IF ~capt.matched THEN ErrArmor ELSE from_captures(capt)

\* armor.rs 41-45
ArmorType_from_footer(str) ==
    LET capt == Captures(EndPGP, str) IN
    IF ~capt.matched THEN ErrArmor ELSE from_captures(capt)

(***************************************************************************)
(* Base64 as rustc_serialize's from_base64 decodes it (armor.rs 3, 147,    *)
(* 156) and the CRC-24 of armor.rs 92-105.                                 *)
(***************************************************************************)
Base64Alphabet ==
    << "A", "B", "C", "D", "E", "F", "G", "H", "I", "J", "K", "L", "M", "N", "O", "P",
       "Q", "R", "S", "T", "U", "V", "W", "X", "Y", "Z", "a", "b", "c", "d", "e", "f",
       "g", "h", "i", "j", "k", "l", "m", "n", "o", "p", "q", "r", "s", "t", "u", "v",
       "w", "x", "y", "z", "0", "1", "2", "3", "4", "5", "6", "7", "8", "9", "+", "/" >>

\* the 6-bit value of a character: the standard and the URL-safe alphabet
\* are both accepted; -1 for a character of neither
Base64Code(c) ==
    IF c = "-" THEN 62
    ELSE IF c = "_" THEN 63
    ELSE IF \E i \in 1..64 : Base64Alphabet[i] = c
      THEN (CHOOSE i \in 1..64 : Base64Alphabet[i] = c) - 1
    ELSE -1

\* The loop of from_base64 at one character c.  The state is [buf, modulus,
\* out, at]: at is "loop" in the first loop, "pad" once an = was met, "bad"
\* after a character outside the alphabet.  buf is a u32 of which bits 30
\* and 31 are never read; it is kept modulo 2^30.
Base64Step(st, c) ==
    IF st.at = "pad"
      THEN IF c \in {"=", "\r", "\n"} THEN st ELSE [st EXCEPT !.at = "bad"]
    ELSE IF c \in {"\r", "\n"} THEN st
    ELSE IF c = "=" THEN [st EXCEPT !.at = "pad"]
    ELSE IF Base64Code(c) < 0 THEN [st EXCEPT !.at = "bad"]
    ELSE LET b == ((st.buf + Base64Code(c)) % 16777216) * 64 IN
         IF st.modulus = 3
           THEN [buf |-> b, modulus |-> 0, at |-> st.at,
                 out |-> st.out \o << (b \div 4194304) % 256, (b \div 16384) % 256,
                                      (b \div 64) % 256 >>]
           ELSE [buf |-> b, modulus |-> st.modulus + 1, at |-> st.at, out |-> st.out]

RECURSIVE Base64Loop(_, _, _)
Base64Loop(str, i, st) ==
    IF st.at = "bad" \/ i > Len(str) THEN st
    ELSE Base64Loop(str, i + 1, Base64Step(st, str[i]))

\* the end of from_base64: the bytes left in buf by 2 or 3 characters
Base64Finish(st) ==
    IF st.at = "bad" THEN [ok |-> FALSE, val |-> <<>>]
    ELSE CASE st.modulus = 0 -> [ok |-> TRUE, val |-> st.out]
           [] st.modulus = 2 -> [ok |-> TRUE, val |-> Append(st.out, (st.buf \div 1024) % 256)]
           [] st.modulus = 3 ->
                [ok |-> TRUE,
                 val |-> st.out \o << (st.buf \div 65536) % 256, (st.buf \div 256) % 256 >>]
           [] OTHER -> [ok |-> FALSE, val |-> <<>>]

\* str.from_base64(): [ok, val]
from_base64(str) ==
    Base64Finish(Base64Loop(str, 1, [buf |-> 0, modulus |-> 0, at |-> "loop", out |-> <<>>]))

\* a ^ b on naturals
RECURSIVE Xor(_, _)
Xor(a, b) ==
    IF a = 0 THEN b
    ELSE IF b = 0 THEN a
    ELSE (((a % 2) + (b % 2)) % 2) + 2 * Xor(a \div 2, b \div 2)

\* armor.rs 93
CrcInit == 11994318

\* armor.rs 100
CrcPoly == 25578747

\* armor.rs 97-102: eight times, shift left and reduce.  crc stays below
\* 2^25, so the u32 never overflows.
RECURSIVE CrcShift(_, _)
CrcShift(crc, k) ==
    IF k = 0 THEN crc
    ELSE IF ((crc * 2) \div 16777216) % 2 = 1
      THEN CrcShift(Xor(crc * 2, CrcPoly), k - 1)
    ELSE CrcShift(crc * 2, k - 1)

RECURSIVE CrcLoop(_, _)
\* armor.rs 93-103: crc after the first n bytes
CrcLoop(bytes, n) ==
    IF n = 0 THEN CrcInit
    ELSE CrcShift(Xor(CrcLoop(bytes, n - 1), bytes[n] * 65536), 8)

\* armor.rs 92-105
calc_crc(bytes) == CrcLoop(bytes, Len(bytes)) % 16777216

(***************************************************************************)
(* Armor::read, armor.rs 107-168.                                          *)
(***************************************************************************)
\* the index of the first ": " of str at or after i, 0 when there is none
RECURSIVE FindSeparator(_, _)
FindSeparator(str, i) ==
    IF i + 1 > Len(str) THEN 0
    ELSE IF str[i] = ":" /\ str[i + 1] = " " THEN i
    ELSE FindSeparator(str, i + 1)

\* line.split(": ").collect()
RECURSIVE SplitHeader(_)
SplitHeader(str) ==
    LET at == FindSeparator(str, 1) IN
    IF at = 0 THEN << str >>
    ELSE << SubSeq(str, 1, at - 1) >> \o SplitHeader(SubSeq(str, at + 2, Len(str)))

\* the checksum length check with < written for !=
WrongCrcLength_TooShortOnly(crc_bytes) == Len(crc_bytes) < 3

\* armor.rs 148
WrongCrcLength(crc_bytes) == Len(crc_bytes) # 3

\* armor.rs 151
CrcOfBytes(crc_bytes) == crc_bytes[1] * 65536 + crc_bytes[2] * 256 + crc_bytes[3]

\* ArmorType equality that looks at the variant alone
TypesDiffer_VariantOnly(a, b) == a.variant # b.variant

\* armor.rs 10 and 160: != of the derived PartialEq
TypesDiffer(a, b) == a # b

\* armor.rs 159-167: the footer line, lines[i]
ReadFooter(lines, i, armor_type, data_bytes, headers) ==
    IF i > Len(lines) THEN ErrArmor
    ELSE LET footer == ArmorType_from_footer(lines[i]) IN
         IF ~footer.ok THEN footer
         ELSE IF TypesDiffer(footer.kind, armor_type) THEN ErrArmor
         ELSE Res(TRUE, "", armor_type, data_bytes, headers)

\* armor.rs 139-158: the body loop from lines[i] on
RECURSIVE ReadBody(_, _, _, _, _)
ReadBody(lines, i, armor_type, data_bytes, headers) ==
    IF i > Len(lines) THEN ErrArmor
    ELSE IF lines[i] = <<>> THEN ErrArmor
    ELSE IF lines[i][1] = "="
      THEN LET crc_bytes == from_base64(SubSeq(lines[i], 2, Len(lines[i]))) IN
           IF ~crc_bytes.ok THEN ErrBase64
           ELSE IF WrongCrcLength(crc_bytes.val) THEN ErrArmor
           ELSE IF CrcOfBytes(crc_bytes.val) # calc_crc(data_bytes) THEN ErrArmor
           ELSE ReadFooter(lines, i + 1, armor_type, data_bytes, headers)
    ELSE LET bytes == from_base64(lines[i]) IN
         IF ~bytes.ok THEN ErrBase64
         ELSE ReadBody(lines, i + 1, armor_type, data_bytes \o bytes.val, headers)

\* armor.rs 117-133: the header-field loop from lines[i] on
RECURSIVE ReadHeaders(_, _, _, _)
ReadHeaders(lines, i, armor_type, headers) ==
    IF i > Len(lines) THEN ErrArmor
    ELSE IF lines[i] = <<>> THEN ReadBody(lines, i + 1, armor_type, <<>>, headers)
    ELSE LET pieces == SplitHeader(lines[i]) IN
         IF Len(pieces) # 2 THEN ErrArmor
         ELSE ReadHeaders(lines, i + 1, armor_type,
                          Append(headers, [name |-> pieces[1], value |-> pieces[2]]))

\* armor.rs 107-168
Armor_read(lines) ==
    IF lines = <<>> THEN ErrArmor
    ELSE LET armor_type == ArmorType_from_header(lines[1]) IN
         IF ~armor_type.ok THEN armor_type
         ELSE ReadHeaders(lines, 2, armor_type.kind, <<>>)

(***************************************************************************)
(* The lines from_header and from_footer are called on.                    *)
(***************************************************************************)
Labels ==
    { LabelPublicKey, LabelPrivateKey, LabelSignature, LabelMessage,
      <<"A", "R", "M", "O", "R", "E", "D", " ", "F", "I", "L", "E">>, <<"M", "e", "s", "s", "a", "g", "e">>, LabelMessage \o <<" ">> }

NumberSuffixes == { <<" ", "3">>, <<" ", "4", "2">>, <<" ", "7", "/", "9">> }

Suffixes == NumberSuffixes \cup { <<>>, <<"/", "9">>, <<" ", "3", "/">>, <<" ", "x">> }

TypeLines ==
    { Dashes \o kw \o lab \o suf \o Dashes :
        kw \in {BeginPGP, EndPGP}, lab \in Labels, suf \in Suffixes }
    \cup { <<>>,
           SubSeq(Dashes, 1, 4) \o BeginPGP \o LabelMessage \o Dashes,
           Dashes \o BeginPGP \o LabelMessage \o Dashes \o <<" ">>,
           Dashes \o BeginPGP \o Dashes,
           Dashes \o EndPGP \o LabelSignature \o SubSeq(Dashes, 1, 4) }

(***************************************************************************)
(* The armored texts Armor::read is called on.  A text is written from an  *)
(* origin: the types of its header and footer lines, a payload P, the bit  *)
(* of P flipped in the body (0: none) while the checksum line stays that   *)
(* of P, the bytes per body line, and the bytes added to the checksum.     *)
(***************************************************************************)
\* part and total numbers go up to MaxPart (and 42, for two digits)
MaxPart == 2

\* payloads have at most MaxPayloadLen bytes
MaxPayloadLen == 2

PartNumbers == (1..MaxPart) \cup {42}

ArmorTypes ==
    { ArmorType(v, <<>>, <<>>) : v \in {"PublicKey", "PrivateKey", "Signature", "Message"} }
    \cup { ArmorType("Message", <<p>>, <<>>) : p \in PartNumbers }
    \cup { ArmorType("Message", <<p>>, <<t>>) : p \in PartNumbers, t \in PartNumbers }

PayloadByteVals == {0, 1, 85, 128, 255}

RECURSIVE SeqsUpTo(_)
\* the payloads of at most k bytes
SeqsUpTo(k) ==
    IF k = 0 THEN { <<>> }
    ELSE LET shorter == SeqsUpTo(k - 1) IN
         shorter \cup { Append(q, b) : q \in shorter, b \in PayloadByteVals }

Payloads == SeqsUpTo(MaxPayloadLen)

DigitChar(d) == Base64Alphabet[53 + d]

RECURSIVE FormatNat(_)
FormatNat(v) ==
    IF v < 10 THEN << DigitChar(v) >> ELSE Append(FormatNat(v \div 10), DigitChar(v % 10))

LabelOf(variant) ==
    CASE variant = "PublicKey" -> LabelPublicKey
      [] variant = "PrivateKey" -> LabelPrivateKey
      [] variant = "Signature" -> LabelSignature
      [] OTHER -> LabelMessage

\* the header (BeginPGP) or footer (EndPGP) line of an ArmorType
TypeLine(keyword, t) ==
    Dashes \o keyword \o LabelOf(t.variant)
    \o (IF t.part = <<>> THEN <<>> ELSE <<" ">> \o FormatNat(t.part[1]))
    \o (IF t.total = <<>> THEN <<>> ELSE <<"/">> \o FormatNat(t.total[1]))
    \o Dashes

\* standard base64 with padding
RECURSIVE Base64Encode(_)
Base64Encode(bytes) ==
    LET ch(v) == Base64Alphabet[v + 1] IN
    IF bytes = <<>> THEN <<>>
    ELSE IF Len(bytes) = 1
      THEN << ch(bytes[1] \div 4), ch((bytes[1] % 4) * 16), "=", "=" >>
    ELSE IF Len(bytes) = 2
      THEN << ch(bytes[1] \div 4), ch((bytes[1] % 4) * 16 + (bytes[2] \div 16)),
              ch((bytes[2] % 16) * 4), "=" >>
    ELSE << ch(bytes[1] \div 4), ch((bytes[1] % 4) * 16 + (bytes[2] \div 16)),
            ch((bytes[2] % 16) * 4 + (bytes[3] \div 64)), ch(bytes[3] % 64) >>
         \o Base64Encode(SubSeq(bytes, 4, Len(bytes)))

\* bit k (0 the lowest) of byte b
BitOf(b, k) == (b \div (2 ^ k)) % 2

\* CRC-24 as a shift register fed one message bit at a time, highest first:
\* the register of 24 bits starts at 0xB704CE; a 1 leaving at the top,
\* added to the message bit, feeds back the polynomial 0x1864CFB
RECURSIVE Crc24Bits(_, _, _)
Crc24Bits(bytes, k, reg) ==
    IF k >= 8 * Len(bytes) THEN reg
    ELSE LET m   == BitOf(bytes[(k \div 8) + 1], 7 - (k % 8))
             low == (reg * 2) % 16777216 IN
         IF (reg \div 8388608) % 2 # m
           THEN Crc24Bits(bytes, k + 1, Xor(low, CrcPoly - 16777216))
           ELSE Crc24Bits(bytes, k + 1, low)

Crc24Ref(bytes) == Crc24Bits(bytes, 0, CrcInit)

CrcLineBytes(v) == << v \div 65536, (v \div 256) % 256, v % 256 >>

\* bytes with bit k flipped (bit 1 the lowest bit of the first byte)
FlipBit(bytes, k) ==
    LET i == ((k - 1) \div 8) + 1
        b == (k - 1) % 8 IN
    [bytes EXCEPT ![i] = IF BitOf(@, b) = 1 THEN @ - 2 ^ b ELSE @ + 2 ^ b]

\* bytes cut into body lines of w bytes
RECURSIVE BodyLines(_, _)
BodyLines(bytes, w) ==
    IF bytes = <<>> THEN <<>>
    ELSE IF Len(bytes) <= w THEN << Base64Encode(bytes) >>
    ELSE << Base64Encode(SubSeq(bytes, 1, w)) >> \o BodyLines(SubSeq(bytes, w + 1, Len(bytes)), w)

VersionField == <<"V", "e", "r", "s", "i", "o", "n", ":", " ", "G", "n", "u", "P", "G", " ", "v", "2">>

Origin(family, hdr, ftr, P, flip, width, extra, raw) ==
    [family |-> family, hdr |-> hdr, ftr |-> ftr, P |-> P, flip |-> flip,
     width |-> width, extra |-> extra, raw |-> raw]

NoOrigin == Origin("none", NoType, NoType, <<>>, 0, 0, <<>>, 0)

\* the payload of the body: P, with a bit flipped when flip > 0
BodyOf(o) == IF o.flip = 0 THEN o.P ELSE FlipBit(o.P, o.flip)

Written(o) ==
    << TypeLine(BeginPGP, o.hdr), VersionField, <<>> >>
    \o BodyLines(BodyOf(o), o.width)
    \o << <<"=">> \o Base64Encode(CrcLineBytes(Crc24Ref(o.P)) \o o.extra),
          TypeLine(EndPGP, o.ftr) >>

KeyType == ArmorType("PublicKey", <<>>, <<>>)

\* a good block, and blocks that are off in one place
GoodText == Written(Origin("crc", KeyType, KeyType, <<1, 2, 3, 4>>, 0, 3, <<>>, 0))

Replace(lines, i, str) == [lines EXCEPT ![i] = str]

Insert(lines, i, str) == SubSeq(lines, 1, i - 1) \o << str >> \o SubSeq(lines, i, Len(lines))

RawTexts ==
    << Replace(GoodText, 2, <<"V", "e", "r", "s", "i", "o", "n", " ", "G", "n", "u", "P", "G", " ", "v", "2">>),               \* field without ": "
       Replace(GoodText, 2, <<"C", "o", "m", "m", "e", "n", "t", ":", " ", "a", ":", " ", "b">>),              \* field with two ": "
       Replace(GoodText, 2, <<"=", "x", ":", " ", "y">>),             \* field starting with =
       Insert(GoodText, 2, VersionField),             \* the same field twice
       SubSeq(GoodText, 1, 1) \o SubSeq(GoodText, 3, 7),   \* no field
       SubSeq(GoodText, 1, 2) \o SubSeq(GoodText, 4, 7),   \* no blank line
       Insert(GoodText, 5, <<>>),                     \* empty line in the body
       Replace(GoodText, 4, <<"A", "Q", "!", "D">>),             \* not base64
       Replace(GoodText, 4, <<"-", "_", "-", "_">>),                 \* URL-safe alphabet
       Replace(GoodText, 4, <<"A", "Q", "I", "D", "B">>),             \* one character too many
       Replace(GoodText, 6, <<"=", "a", "*", "c", "/">>),              \* checksum not base64
       Replace(GoodText, 6, <<"=">>),                 \* checksum of no bytes
       GoodText \o << VersionField >>,                \* a line after the footer
       Replace(GoodText, 7, TypeLine(BeginPGP, KeyType)),  \* header as footer
       Replace(GoodText, 1, TypeLine(EndPGP, KeyType)),    \* footer as header
       Replace(GoodText, 1, Dashes \o BeginPGP \o LabelPublicKey \o <<" ", "3">> \o Dashes),
       Replace(GoodText, 7, Dashes \o EndPGP \o LabelPublicKey \o <<" ", "7", "/", "9">> \o Dashes),
       Replace(Replace(GoodText, 1, Dashes \o BeginPGP \o LabelMessage \o <<" ", "0", "7">> \o Dashes),
               7, Dashes \o EndPGP \o LabelMessage \o <<" ", "7">> \o Dashes),
       Replace(GoodText, 7, Dashes \o EndPGP \o <<"A", "R", "M", "O", "R", "E", "D", " ", "F", "I", "L", "E">> \o Dashes) >>

Origins ==
    { Origin("types", h, f, <<1, 2, 3, 4>>, 0, 3, <<>>, 0) : h \in ArmorTypes, f \in ArmorTypes }
    \cup { Origin("crc", KeyType, KeyType, q, k, w, <<>>, 0) :
              q \in Payloads, k \in 0..(8 * MaxPayloadLen), w \in {1, 3} }
    \cup { Origin("crc", KeyType, KeyType, q, 0, 3, <<x>>, 0) : q \in Payloads, x \in {0, 61} }
    \cup { Origin("cut", KeyType, KeyType, <<1, 2, 3, 4>>, 0, 3, <<>>, k) : k \in 0..6 }
    \cup { Origin("raw", KeyType, KeyType, <<1, 2, 3, 4>>, 0, 3, <<>>, k) :
              k \in 1..Len(RawTexts) }

\* an origin's flipped bit lies inside its payload
WellFormed(o) == o.flip <= 8 * Len(o.P)

TextOf(o) ==
    CASE o.family = "raw" -> RawTexts[o.raw]
      [] o.family = "cut" -> SubSeq(GoodText, 1, o.raw)
      [] OTHER -> Written(o)

(***************************************************************************)
(* The buffers the iterator is run on: up to MaxPackets chunks followed by *)
(* a tail.                                                                 *)
(***************************************************************************)
\* the tag byte of an old-format packet
TagByte(tag, len_type) == 128 + tag * 4 + len_type

\* a length written on LenBytes(len_type) bytes, big-endian
LenField(len_type, len) ==
    CASE len_type = 0 -> <<len % 256>>
      [] len_type = 1 -> <<(len \div 256) % 256, len % 256>>
      [] OTHER -> <<0, (len \div 65536) % 256, (len \div 256) % 256, len % 256>>

\* a packet whose length field declares Len(payload) + delta bytes
Frame(tag, len_type, payload, delta) ==
    <<TagByte(tag, len_type)>> \o LenField(len_type, Len(payload) + delta) \o payload

\* 1436993276, the fixture's creation time, and another
Stamp1 == <<85, 166, 198, 252>>
Stamp2 == <<0, 0, 0, 7>>

\* bignums: bit length on two bytes, then ceil(bits / 8) bytes
BigA == <<0, 9, 1, 166>>
BigB == <<0, 17, 1, 0, 1>>
BigC == <<0, 0>>
BigD == <<0, 8, 200>>

KeyBody(ver, stamp, alg, n, e) == <<ver>> \o stamp \o <<alg>> \o n \o e

Rsa1 == KeyBody(4, Stamp1, 1, BigA, BigB)
Rsa2 == KeyBody(4, Stamp2, 1, BigC, BigD)

DropLast(s, k) == SubSeq(s, 1, Len(s) - k)

Chunks ==
    { Frame(2, 0, <<1, 2>>, 0),                 \* unknown tag, well framed
      Frame(2, 0, <<>>, 0),                     \* unknown tag, empty payload
      Frame(14, 1, <<7>>, 0),                   \* unknown tag, 2 length bytes
      Frame(6, 0, Rsa1, 0),                     \* RSA key
      Frame(6, 1, Rsa2, 0),                     \* RSA key, 2 length bytes
      Frame(6, 2, Rsa1, 0),                     \* RSA key, 4 length bytes
      Frame(6, 0, KeyBody(3, Stamp1, 1, BigA, BigB), 0),    \* v3 key
      Frame(6, 0, KeyBody(4, Stamp1, 17, BigA, BigB), 0),   \* DSA
      Frame(6, 0, KeyBody(4, Stamp2, 16, BigD, BigA), 0),   \* Elgamal
      Frame(6, 0, DropLast(Rsa1, 2), 0),        \* RSA key cut inside e
      Frame(6, 0, Rsa1, -2),                    \* the same, e's end left outside
      Frame(6, 0, Rsa2 \o <<9, 9>>, 0),         \* RSA key, then unread bytes
      Frame(6, 0, <<>>, 0),                     \* empty key payload
      Frame(6, 0, <<4, 0, 0>>, 0),              \* key cut inside the timestamp
      Frame(6, 0, Rsa1, 1),                     \* declares one byte too many
      <<24>>,                                   \* marker bit clear
      <<216>>,                                  \* marker set, new format
      <<155>>,                                  \* marker set, indeterminate
      <<91>>,                                   \* marker clear, style and type 3
      <<195>> }                                 \* new format and type 3

Tails ==
    { <<>>,
      <<152>>,                                  \* tag byte, no length byte
      <<153, 0>>,                               \* 1 of 2 length bytes
      <<154, 0, 0, 0>>,                         \* 3 of 4 length bytes
      <<154>>,                                  \* 0 of 4 length bytes
      <<136, 3, 1>>,                            \* payload shorter than declared
      <<0>> }

RECURSIVE Concats(_)
\* the concatenations of at most k chunks
Concats(k) ==
    IF k = 0 THEN { <<>> }
    ELSE LET shorter == Concats(k - 1) IN
         shorter \cup { a \o b : a \in Chunks, b \in shorter }

Buffers == { b \o t : b \in Concats(MaxPackets), t \in Tails }

(***************************************************************************)
(* The packet iterator: PacketIterator::new, then calls to next(); the     *)
(* caller read_stream collects what next() returns up to the first None.   *)
(***************************************************************************)
InitPacket ==
    /\ mode = "packets"
    /\ data \in Buffers
    /\ cursor = 0
    /\ errored = FALSE
    /\ pc = "run"
    /\ rets = <<>>
    /\ stream = <<>>
    /\ done = FALSE
    /\ last = NoCall
    /\ line = <<>> /\ typeRes = NoTypeCall /\ armored = <<>>
    /\ origin = NoOrigin /\ armorRes = NoResult

\* a call to next() can be made: no call has panicked
CanCall == mode = "packets" /\ pc = "run" /\ Len(rets) < MaxCalls

next ==
    /\ CanCall
    /\ LET r == NextCall(data, cursor, errored) IN
       /\ cursor' = r.cursor
       /\ errored' = r.errored
       /\ pc' = IF r.panic THEN "panic" ELSE "run"
       /\ rets' = IF r.panic THEN rets ELSE Append(rets, r.ret)
       /\ stream' = IF r.panic \/ done \/ r.ret = None THEN stream
                    ELSE Append(stream, r.ret)
       /\ done' = (done \/ (~r.panic /\ r.ret = None))
       /\ last' = [called |-> TRUE, framed |-> r.framed,
                   len_bytes |-> r.len_bytes, len |-> r.len,
                   before |-> cursor, wasErrored |-> errored]
    /\ UNCHANGED <<mode, data>>
    /\ UNCHANGED armorVars

Next == next

Spec == InitPacket /\ [][Next]_vars

(***************************************************************************)
(* ArmorType::from_header and ArmorType::from_footer, each called on a     *)
(* line.                                                                   *)
(***************************************************************************)
InitType ==
    /\ mode = "type"
    /\ line \in TypeLines
    /\ typeRes = NoTypeCall
    /\ armored = <<>> /\ origin = NoOrigin /\ armorRes = NoResult
    /\ data = <<>> /\ cursor = 0 /\ errored = FALSE /\ pc = "run"
    /\ rets = <<>> /\ stream = <<>> /\ done = FALSE /\ last = NoCall

from_header ==
    /\ mode = "type"
    /\ typeRes' = [fn |-> "from_header", res |-> ArmorType_from_header(line)]
    /\ UNCHANGED <<mode, line, armored, origin, armorRes>>
    /\ UNCHANGED packetVars

from_footer ==
    /\ mode = "type"
    /\ typeRes' = [fn |-> "from_footer", res |-> ArmorType_from_footer(line)]
    /\ UNCHANGED <<mode, line, armored, origin, armorRes>>
    /\ UNCHANGED packetVars

NextType == from_header \/ from_footer

SpecType == InitType /\ [][NextType]_vars

(***************************************************************************)
(* Armor::read called on an armored text.                                 *)
(***************************************************************************)
InitArmor ==
    /\ mode = "armor"
    /\ origin \in { o \in Origins : WellFormed(o) }
    /\ armored = TextOf(origin)
    /\ armorRes = NoResult
    /\ line = <<>> /\ typeRes = NoTypeCall
    /\ data = <<>> /\ cursor = 0 /\ errored = FALSE /\ pc = "run"
    /\ rets = <<>> /\ stream = <<>> /\ done = FALSE /\ last = NoCall

read ==
    /\ mode = "armor"
    /\ ~armorRes.called
    /\ armorRes' = Armor_read(armored)
    /\ UNCHANGED <<mode, line, typeRes, armored, origin>>
    /\ UNCHANGED packetVars

NextArmor == read

SpecArmor == InitArmor /\ [][NextArmor]_vars

(***************************************************************************)
(* Properties of the header and footer grammar.                            *)
(***************************************************************************)
\* a header (BEGIN) or footer (END) line with a label that takes no number,
\* followed by a part number, with or without a total
NumberedKeyLine(keyword, str) ==
    \E lab \in {LabelPublicKey, LabelPrivateKey, LabelSignature} :
        \E suf \in NumberSuffixes : str = Dashes \o keyword \o lab \o suf \o Dashes

\* C5: from_header and from_footer fail with the armor-format error on every
\* PUBLIC KEY BLOCK, PRIVATE KEY BLOCK or SIGNATURE line that carries a part
\* number; only MESSAGE takes one.
C5_NumberOnlyOnMessage ==
    /\ (typeRes.fn = "from_header" /\ NumberedKeyLine(BeginPGP, line)) =>
          typeRes.res = ErrArmor
    /\ (typeRes.fn = "from_footer" /\ NumberedKeyLine(EndPGP, line)) =>
          typeRes.res = ErrArmor

\* what the tests parsing_header_lines and parsing_footer_lines assert, and
\* the rejection of labels and shapes outside the grammar
TypeGrammarSane ==
    typeRes.fn # "none" =>
        LET kw == IF typeRes.fn = "from_header" THEN BeginPGP ELSE EndPGP IN
        /\ line = Dashes \o kw \o LabelMessage \o Dashes =>
              typeRes.res = OkType(ArmorType("Message", <<>>, <<>>))
        /\ line = Dashes \o kw \o LabelMessage \o <<" ", "4", "2">> \o Dashes =>
              typeRes.res = OkType(ArmorType("Message", <<42>>, <<>>))
        /\ line = Dashes \o kw \o LabelMessage \o <<" ", "7", "/", "9">> \o Dashes =>
              typeRes.res = OkType(ArmorType("Message", <<7>>, <<9>>))
        /\ line = Dashes \o kw \o LabelSignature \o Dashes =>
              typeRes.res = OkType(ArmorType("Signature", <<>>, <<>>))
        /\ (Len(line) < 10 \/ SubSeq(line, 1, Len(Dashes \o kw)) # Dashes \o kw) =>
              typeRes.res = ErrArmor

(***************************************************************************)
(* Properties of Armor::read.                                              *)
(***************************************************************************)
\* the index of the checksum line: the first line starting with = after the
\* first empty line (0 when there is none)
RECURSIVE FirstFrom(_, _, _)
FirstFrom(lines, i, blankSeen) ==
    IF i > Len(lines) THEN 0
    ELSE IF ~blankSeen THEN FirstFrom(lines, i + 1, lines[i] = <<>>)
    ELSE IF lines[i] # <<>> /\ lines[i][1] = "=" THEN i
    ELSE FirstFrom(lines, i + 1, TRUE)

ChecksumIndex(lines) == FirstFrom(lines, 2, FALSE)

\* C6: read returns Ok only if the line after the checksum line parses as a
\* footer whose ArmorType equals the header's: same variant and, for
\* MESSAGE, same part and same total.  A block that is valid but for a
\* footer type differing in variant, part or total fails with the
\* armor-format error.
C6_HeaderFooterAgree ==
    armorRes.called =>
        /\ armorRes.ok =>
              LET c == ChecksumIndex(armored) IN
              /\ c > 0 /\ c < Len(armored)
              /\ ArmorType_from_header(armored[1]).ok
              /\ ArmorType_from_footer(armored[c + 1]).ok
              /\ ArmorType_from_footer(armored[c + 1]).kind
                    = ArmorType_from_header(armored[1]).kind
              /\ armorRes.kind = ArmorType_from_header(armored[1]).kind
        /\ origin.family = "types" =>
              /\ armorRes.ok =>
                    /\ origin.hdr.variant = origin.ftr.variant
                    /\ origin.hdr.part = origin.ftr.part
                    /\ origin.hdr.total = origin.ftr.total
                    /\ armorRes.kind = origin.hdr
              /\ origin.hdr # origin.ftr => armorRes = ErrArmor

\* a block whose footer has the header's part but another total is refused
C6_Witness ==
    /\ armorRes = ErrArmor
    /\ origin.family = "types"
    /\ origin.hdr.variant = "Message" /\ origin.ftr.variant = "Message"
    /\ origin.hdr.part = origin.ftr.part
    /\ origin.hdr.total = <<2>> /\ origin.ftr.total = <<1>>

\* C7: with the checksum line of P (the CRC-24 of P on 3 bytes, big-endian)
\* left as it is, a body that decodes to P with one bit flipped makes read
\* fail with the armor-format error; read returns Ok only when the checksum
\* line decodes to exactly 3 bytes equal to the CRC-24 of the whole decoded
\* payload.
C7_ChecksumGuardsPayload ==
    armorRes.called =>
        /\ (origin.family = "crc" /\ origin.flip > 0) => armorRes = ErrArmor
        /\ armorRes.ok =>
              LET c  == ChecksumIndex(armored)
                  cb == from_base64(SubSeq(armored[c], 2, Len(armored[c]))) IN
              /\ c > 0
              /\ cb.ok /\ Len(cb.val) = 3
              /\ cb.val = CrcLineBytes(Crc24Ref(armorRes.data))
        /\ (origin.family = "crc" /\ armorRes.ok) =>
              (origin.extra = <<>> /\ armorRes.data = origin.P)

\* the highest bit of the second byte flipped in a two-line body
C7_Witness ==
    /\ armorRes = ErrArmor
    /\ origin.family = "crc" /\ origin.flip = 16 /\ origin.width = 1
    /\ Len(origin.P) = 2

\* every block written with matching types, the payload untouched and a
\* 3-byte checksum is read back: kind, payload and the one header field
ReadsBackWhatWasWritten ==
    (armorRes.called /\ origin.family \in {"types", "crc"} /\ origin.hdr = origin.ftr
       /\ origin.flip = 0 /\ origin.extra = <<>>) =>
        /\ armorRes.ok
        /\ armorRes.kind = origin.hdr
        /\ armorRes.data = origin.P
        /\ Len(armorRes.headers) = 1

\* a text cut short anywhere before its footer fails with the armor-format
\* error
CutTextFails ==
    (armorRes.called /\ origin.family = "cut") => armorRes = ErrArmor

(***************************************************************************)
(* Properties of the packet iterator.                                      *)
(***************************************************************************)
\* what the latest call to next() returned (when it returned)
LastRet == rets[Len(rets)]

\* the errors next() returns together with errored = true
IsFramingError(x) ==
    \/ x = ErrPacket
    \/ x = ErrUnsupported("new-style packet length")
    \/ x = ErrUnsupported("indeterminate-length packets")

\* read straight from the buffer: the number of length bytes of the packet
\* that starts at 0-based position c, its declared length, its payload
FieldBytes(buf, c) == CASE buf[c + 1] % 4 = 0 -> 1 [] buf[c + 1] % 4 = 1 -> 2 [] OTHER -> 4

RECURSIVE BigEndian(_)
BigEndian(bytes) ==
    IF bytes = <<>> THEN 0
    ELSE BigEndian(SubSeq(bytes, 1, Len(bytes) - 1)) * 256 + bytes[Len(bytes)]

Declared(buf, c) == BigEndian(SubSeq(buf, c + 2, c + 1 + FieldBytes(buf, c)))

Region(buf, c) ==
    SubSeq(buf, c + 2 + FieldBytes(buf, c), c + 1 + FieldBytes(buf, c) + Declared(buf, c))

\* C1: once next() has returned a framing-level error, every later call
\* returns None; in read_stream's result a framing-level error is the last
\* element, so there is at most one.
C1_FramingErrorIsTerminal ==
    /\ \A i \in 1..Len(rets) : \A j \in 1..Len(rets) :
          (i < j /\ IsFramingError(rets[i])) => rets[j] = None
    /\ \A i \in 1..Len(stream) : IsFramingError(stream[i]) => i = Len(stream)

\* a framing-level error after a good packet, then two calls returning None
C1_Witness ==
    /\ Len(rets) >= 4
    /\ ~IsFramingError(rets[1])
    /\ IsFramingError(rets[2])
    /\ rets[3] = None /\ rets[4] = None
    /\ done /\ Len(stream) = 2

\* the buffers of C2: one well-framed packet with an unknown tag, then one
\* well-framed valid v4 RSA key packet that ends the buffer
UnknownFrames == { Frame(2, 0, <<1, 2>>, 0), Frame(2, 0, <<>>, 0), Frame(14, 1, <<7>>, 0) }

RsaFrames == { Frame(6, 0, Rsa1, 0), Frame(6, 1, Rsa2, 0), Frame(6, 2, Rsa1, 0) }

\* C2: on an unknown packet followed by a valid RSA key packet that ends the
\* buffer, read_stream gives the unknown-packet-type error, then the key.
C2_UnknownThenKey ==
    \A a \in UnknownFrames : \A b \in RsaFrames :
        (done /\ data = a \o b) =>
            /\ Len(stream) = 2
            /\ stream[1] = ErrUnknownPacket(TagOf(a[1]))
            /\ stream[2].kind = "Rsa"

\* the buffer ends inside the length field of the packet starting at c
EndsInLengthField(buf, c) ==
    /\ c < Len(buf)
    /\ buf[c + 1] >= 128 /\ buf[c + 1] < 192 /\ buf[c + 1] % 4 # 3
    /\ c + 1 + FieldBytes(buf, c) > Len(buf)

\* C3: no byte is read at or past the end of the buffer; a buffer that ends
\* inside a length field makes next() return a packet-format error and mark
\* the stream failed.
C3_TruncatedLengthIsAnError ==
    /\ pc # "panic"
    /\ (last.called /\ ~last.wasErrored /\ EndsInLengthField(data, last.before)) =>
          (LastRet = ErrPacket /\ errored)

\* what C4 says a rejected first tag byte gives
RejectedAs(tag_byte) ==
    IF tag_byte < 128 THEN ErrPacket
    ELSE IF tag_byte >= 192 THEN ErrUnsupported("new-style packet length")
    ELSE ErrUnsupported("indeterminate-length packets")

FirstRejected(buf) ==
    /\ buf # <<>>
    /\ (buf[1] < 128 \/ buf[1] >= 192 \/ buf[1] % 4 = 3)

\* C4: when the first tag byte is rejected, read_stream returns exactly one
\* element, whatever follows: packet-format for a clear marker bit, else
\* unsupported (new-format) for bit 6, else unsupported (indeterminate).
C4_RejectedFirstTagByte ==
    (done /\ FirstRejected(data)) => stream = << RejectedAs(data[1]) >>

\* a new-format tag byte with length type 3, with a good packet behind it
C4_Witness ==
    /\ done /\ Len(data) > 1 /\ data[1] = 195
    /\ stream = << ErrUnsupported("new-style packet length") >>

\* C8, from the bytes of a payload region p: the key C8 describes
KeyOf(p) ==
    LET nlen == (p[7] * 256 + p[8] + 7) \div 8
        elen == (p[9 + nlen] * 256 + p[10 + nlen] + 7) \div 8
    IN OkRsa(SubSeq(p, 9, 8 + nlen), SubSeq(p, 11 + nlen, 10 + nlen + elen),
             p[2] * 16777216 + p[3] * 65536 + p[4] * 256 + p[5])

\* p holds a whole RSA key: both bignums are inside it
WholeRsa(p) ==
    /\ Len(p) >= 10 /\ p[1] = 4 /\ p[6] = 1
    /\ LET nlen == (p[7] * 256 + p[8] + 7) \div 8 IN
       /\ Len(p) >= 10 + nlen
       /\ Len(p) >= 10 + nlen + (p[9 + nlen] * 256 + p[10 + nlen] + 7) \div 8

\* C8: PublicKey::read gives unsupported for a version other than 4, else
\* Rsa{n, e, timestamp} (n the first bignum, e the second) for algorithm 1
\* and unsupported for every other algorithm; so a buffer that starts with a
\* well-framed v4 RSA key packet followed by more bytes has that key first.
C8_PublicKeyRead ==
    /\ (last.framed /\ TagOf(data[last.before + 1]) = 6) =>
          LET p == Region(data, last.before) IN
          /\ (Len(p) >= 1 /\ p[1] # 4) =>
                LastRet = ErrUnsupported("PublicKey packet is not v4")
          /\ (Len(p) >= 6 /\ p[1] = 4 /\ p[6] # 1) =>
                LastRet = ErrUnsupported("Key format")
          /\ WholeRsa(p) => LastRet = KeyOf(p)
    /\ (/\ Len(stream) >= 1
        /\ data[1] \in {152, 153, 154}
        /\ Len(data) > 1 + FieldBytes(data, 0) + Declared(data, 0)
        /\ WholeRsa(Region(data, 0))) => stream[1] = KeyOf(Region(data, 0))

\* a second packet that is an RSA key with different n and e
C8_Witness ==
    /\ Len(rets) = 2 /\ last.framed
    /\ LastRet.kind = "Rsa" /\ LastRet.n # LastRet.e /\ LastRet.n # <<>>
    /\ LastRet.timestamp = 1436993276

\* C9: repeated calls to next() reach None and read_stream returns: as long
\* as read_stream has not returned, it can make its next call to next().
C9_ReadStreamReturns == done \/ CanCall

\* C9, the rest: the cursor never decreases, and a call that returns an
\* element without marking the stream failed moves it by at least 2 bytes;
\* a buffer of L bytes gives at most L/2 + 1 elements.
C9_Progress ==
    /\ last.called => cursor >= last.before
    /\ (last.called /\ pc = "run" /\ LastRet # None /\ ~errored) =>
          cursor >= last.before + 2
    /\ Len(stream) <= Len(data) \div 2 + 1

\* C10: a call that passes the framing checks moves the cursor by 1 + the
\* number of length bytes + the declared length and leaves errored false,
\* whatever the dispatch gives; the key parser reads inside the payload
\* region only.
C10_FramedCallAdvances ==
    last.framed =>
        /\ cursor = last.before + 1 + FieldBytes(data, last.before)
                    + Declared(data, last.before)
        /\ ~errored
        /\ LastRet.kind = "Rsa" =>
              10 + Len(LastRet.n) + Len(LastRet.e) <= Declared(data, last.before)

\* the key parser ran out of payload although bytes follow in the buffer
C10_Witness ==
    /\ last.framed /\ LastRet.kind = "Msg" /\ cursor < Len(data)
    /\ Declared(data, last.before) >= 10

=============================================================================
